---- MODULE Spec2Model ----
(***************************************************************************)
(* RigettiQCSSampler (cirq-rigetti/cirq_rigetti/sampler.py): a sampler     *)
(* that normalizes a sweep into resolvers and hands the whole job to a     *)
(* pluggable executor.  The sampler's code is modelled from sampler.py;    *)
(* cirq.to_resolvers, the two library executors, the transformers and the  *)
(* seeded QVM live outside the two source files and are modelled from the  *)
(* specification (see the comments on each).                               *)
(***************************************************************************)
EXTENDS Integers, Sequences, FiniteSets, TLC

VARIABLES
    samplers,   \* sampler id -> the object's fields (_quantum_computer, executor, transformer)
    ctor_args,  \* sampler id -> the arguments its constructor was called with
    last,       \* sampler id -> <<>> or <<record of the latest run_sweep call>>
    n_calls,    \* sampler id -> number of run_sweep calls made
    n_normalized,   \* sampler id -> number of calls that got past to_resolvers
    n_invocations   \* sampler id -> number of executor invocations made

vars == <<samplers, ctor_args, last, n_calls, n_normalized, n_invocations>>

----------------------------------------------------------------------------
(* Bounds *)

MaxCalls == 2       \* run_sweep calls per sampler (Spec)
MaxSweepLen == 2    \* points in a sweep
MaxReps == 2        \* repetition counts are -1..MaxReps
MaxPairSweepLen == 1  \* points in a sweep (SpecPair)

----------------------------------------------------------------------------
(* The values the sampler is handed *)

\* An optional argument: <<>> when the caller omits it, <<v>> when given.
Omitted == <<>>
Given(v) == <<v>>

\* pyquil QuantumComputer handles: the QVM of the tests, with the seeds they set.
QuantumComputers ==
    { [name |-> "9q-square-qvm", random_seed |-> s] : s \in {0, 10} }

\* The two executors of circuit_sweep_executors the sampler and its tests name.
DefaultExecutor == "with_quilc_compilation_and_cirq_parameter_resolution"
ParametricExecutor == "with_quilc_parametric_compilation"
Executors == {DefaultExecutor, ParametricExecutor}

\* transformers.default, and a caller's own transformer.
DefaultTransformer == "default"
UserTransformer == "user_transformer"
Transformers == {DefaultTransformer, UserTransformer}

\* Circuits: opaque to the sampler; measurement_keys maps each measurement
\* label to the number of qubits measured under it.
Circuits ==
    { [name |-> "parametric_circuit", measurement_keys |-> [m |-> 1]],
      [name |-> "two_label_circuit", measurement_keys |-> [m |-> 2, z |-> 1]] }

\* A resolver binds the circuit's one symbol t.
ParamValues == {0, 1}
Resolvers == [t : ParamValues]

SeqsUpTo(S, n) == UNION { [1..k -> S] : k \in 0..n }

\* cirq.Sweepable: one resolver, a Points sweep (a key and its values in
\* order), or something that is no Sweepable.
SweepablesUpTo(n) ==
    { [kind |-> "ParamResolver", resolver |-> r, points |-> <<>>] : r \in Resolvers }
    \cup { [kind |-> "Points", resolver |-> [t |-> 0], points |-> vs] :
              vs \in SeqsUpTo(ParamValues, n) }
    \cup { [kind |-> "malformed", resolver |-> [t |-> 0], points |-> <<>>] }

Sweepables == SweepablesUpTo(MaxSweepLen)

RepetitionArgs == {Omitted} \cup { Given(n) : n \in (0 - 1)..MaxReps }

----------------------------------------------------------------------------
(* Outcomes of a call: a returned value or a raised error *)

Return(v) == [kind |-> "return", value |-> v, error |-> "none"]
Raise(e) == [kind |-> "raise", value |-> <<>>, error |-> e]

----------------------------------------------------------------------------
(* Collaborators outside sampler.py, modelled from the specification *)

\* cirq.to_resolvers: the sweep's points as resolvers, one per point, in the
\* sweep's order; input that is no Sweepable raises.
to_resolvers(params) ==
    CASE params.kind = "ParamResolver" -> Return(<<params.resolver>>)
      [] params.kind = "Points" ->
            Return([i \in 1..Len(params.points) |-> [t |-> params.points[i]]])
      [] OTHER -> Raise("TypeError")

\* Transformer contract (circuit) -> native program.  transformers.default
\* accepts every circuit; the caller's transformer of the model rejects
\* circuits with more than one measurement label.
TransformFails(transformer, circuit) ==
    /\ transformer = UserTransformer
    /\ Cardinality(DOMAIN circuit.measurement_keys) > 1

\* The QVM's seeded sampling: a bit that is a fixed function of the seed, the
\* program run (which differs between the two executors) and the shot.
Sample(executor, quantum_computer, resolver, shot, qubit) ==
    IF executor = DefaultExecutor
    THEN ((quantum_computer.random_seed \div 10) + resolver.t * shot + qubit) % 2
    ELSE ((quantum_computer.random_seed \div 10) + resolver.t + shot + qubit) % 2

\* One cirq.Result: the resolver that produced it, and for every measurement
\* label an array of shape (repetitions, qubits measured under the label).
Result(executor, quantum_computer, circuit, resolver, repetitions) ==
    [ params |-> resolver,
      measurements |->
        [ label \in DOMAIN circuit.measurement_keys |->
            [ shot \in 1..repetitions |->
                [ qubit \in 1..circuit.measurement_keys[label] |->
                    Sample(executor, quantum_computer, resolver, shot, qubit) ] ] ] ]

\* Executor contract (backend handle, circuit, resolver sequence, repetition
\* count, transformer) -> ordered sequence of results, one per resolver.
\* Transformation failure, an invalid repetition count and backend failure
\* (backend_ok = FALSE, the environment's choice) surface as errors.
Execute(executor, kwargs, backend_ok) ==
    IF TransformFails(kwargs.transformer, kwargs.circuit)
    THEN Raise("TransformError")
    ELSE IF kwargs.repetitions < 1
    THEN Raise("InvalidRepetitions")
    ELSE IF ~backend_ok
    THEN Raise("BackendError")
    ELSE Return([ i \in 1..Len(kwargs.resolvers) |->
                    Result(executor, kwargs.quantum_computer, kwargs.circuit,
                           kwargs.resolvers[i], kwargs.repetitions) ])

----------------------------------------------------------------------------
(* sampler.py *)

\* _default_executor
_default_executor == DefaultExecutor

\* A constructor that drops its transformer argument.
SamplerInitDefaultTransformer(quantum_computer, executor, transformer) ==
    [ _quantum_computer |-> quantum_computer,
      executor |-> IF executor = Omitted THEN _default_executor ELSE executor[1],
      transformer |-> DefaultTransformer ]

\* RigettiQCSSampler.__init__: the three fields, from the arguments or their defaults.
SamplerInit(quantum_computer, executor, transformer) ==
    [ _quantum_computer |-> quantum_computer,
      executor |-> IF executor = Omitted THEN _default_executor ELSE executor[1],
      transformer |-> IF transformer = Omitted THEN DefaultTransformer ELSE transformer[1] ]

\* A repetition count clamped to at least 1 by the sampler.
RepetitionsOfClamped(repetitions) ==
    IF repetitions = Omitted \/ repetitions[1] < 1 THEN 1 ELSE repetitions[1]

\* run_sweep's parameter `repetitions: int = 1`.
RepetitionsOf(repetitions) ==
    IF repetitions = Omitted THEN 1 ELSE repetitions[1]

\* A list built through a set: duplicates of a resolver are lost.
ResolverListDedup(yielded) ==
    LET keep == { i \in 1..Len(yielded) :
                    \A j \in 1..(i - 1) : yielded[j] # yielded[i] }
        rank(i) == Cardinality({ j \in keep : j <= i })
    IN  [ k \in 1..Cardinality(keep) |->
            yielded[CHOOSE i \in keep : rank(i) = k] ]

\* A list built back to front.
ResolverListReversed(yielded) ==
    [ i \in 1..Len(yielded) |-> yielded[Len(yielded) + 1 - i] ]

\* A list that lives across calls (a shared accumulator): what earlier calls
\* put in it is still there.
ResolverListShared(yielded) ==
    LET earlier == { s \in DOMAIN last : last[s] # <<>> /\ last[s][1].invocations # <<>> } IN
    IF earlier = {}
    THEN yielded
    ELSE last[CHOOSE s \in earlier : TRUE][1].invocations[1].kwargs.resolvers \o yielded

\* resolvers = [r for r in cirq.to_resolvers(params)]: a list of what the
\* iterator yields, in the order it yields them.
ResolverList(yielded) ==
    [ i \in 1..Len(yielded) |-> yielded[i] ]

\* Keyword arguments with transformers.default in place of self.transformer.
ExecutorKwargsDefaultTransformer(self, program, resolvers, repetitions) ==
    [ quantum_computer |-> self._quantum_computer,
      circuit |-> program,
      resolvers |-> resolvers,
      repetitions |-> repetitions,
      transformer |-> DefaultTransformer ]

\* Keyword arguments with the repetitions spread over the sweep as a total
\* number of shots.
ExecutorKwargsTotalShots(self, program, resolvers, repetitions) ==
    [ quantum_computer |-> self._quantum_computer,
      circuit |-> program,
      resolvers |-> resolvers,
      repetitions |-> repetitions * Len(resolvers),
      transformer |-> self.transformer ]

\* The keyword arguments of the call self.executor(...).
ExecutorKwargs(self, program, resolvers, repetitions) ==
    [ quantum_computer |-> self._quantum_computer,
      circuit |-> program,
      resolvers |-> resolvers,
      repetitions |-> repetitions,
      transformer |-> self.transformer ]

\* A return that hands the results back last first.
ReturnOfReversed(executor_outcome) ==
    [ executor_outcome EXCEPT
        !.value = [ i \in 1..Len(@) |-> @[Len(@) + 1 - i] ] ]

\* A return inside try/except: an executor error becomes an empty result list.
ReturnOfSwallowed(executor_outcome) ==
    IF executor_outcome.kind = "raise" THEN Return(<<>>) ELSE executor_outcome

\* `return self.executor(...)`: what the executor returns is returned, what it
\* raises is raised (there is no try/except in run_sweep).
ReturnOf(executor_outcome) ==
    executor_outcome

\* A run_sweep that remembers results: a call whose arguments equal those of
\* a remembered successful call returns its results without the executor.
run_sweep_cached(self, program, params, repetitions, backend_ok) ==
    LET hits == { s \in DOMAIN last :
                    /\ last[s] # <<>>
                    /\ last[s][1].program = program
                    /\ last[s][1].params = params
                    /\ last[s][1].repetitions = repetitions
                    /\ last[s][1].outcome.kind = "return" }
        normalized == to_resolvers(params)
    IN  IF hits # {}
        THEN [ self |-> self, invocations |-> <<>>,
               outcome |-> last[CHOOSE s \in hits : TRUE][1].outcome ]
        ELSE IF normalized.kind = "raise"
        THEN [ self |-> self, invocations |-> <<>>, outcome |-> normalized ]
        ELSE LET kwargs == [ quantum_computer |-> self._quantum_computer,
                             circuit |-> program,
                             resolvers |-> normalized.value,
                             repetitions |-> IF repetitions = Omitted THEN 1
                                             ELSE repetitions[1],
                             transformer |-> self.transformer ]
                 outcome == Execute(self.executor, kwargs, backend_ok)
             IN [ self |-> self,
                  invocations |-> << [ executor |-> self.executor,
                                       kwargs |-> kwargs,
                                       outcome |-> outcome ] >>,
                  outcome |-> outcome ]

\* RigettiQCSSampler.run_sweep, as a function of the object, the arguments and
\* the environment's choice: the object afterwards, the executor invocations
\* made (callee, arguments, what the executor did) and the call's outcome.
run_sweep(self, program, params, repetitions, backend_ok) ==
    LET normalized == to_resolvers(params) IN
    IF normalized.kind = "raise"
    THEN [ self |-> self, invocations |-> <<>>, outcome |-> normalized ]
    ELSE LET resolvers == ResolverList(normalized.value)
             kwargs == ExecutorKwargs(self, program, resolvers,
                                      RepetitionsOf(repetitions))
             outcome == Execute(self.executor, kwargs, backend_ok)
         IN [ self |-> self,
              invocations |-> << [ executor |-> self.executor,
                                   kwargs |-> kwargs,
                                   outcome |-> outcome ] >>,
              outcome |-> ReturnOf(outcome) ]

----------------------------------------------------------------------------
(* The state machine *)

\* The constructor has run for every sampler of `ids`; no call was made yet.
InitWith(ids, qcs, executor_args, transformer_args) ==
    /\ ctor_args \in [ ids -> [ quantum_computer : qcs,
                                executor : executor_args,
                                transformer : transformer_args ] ]
    /\ samplers = [ s \in ids |->
                      SamplerInit(ctor_args[s].quantum_computer,
                                  ctor_args[s].executor,
                                  ctor_args[s].transformer) ]
    /\ last = [ s \in ids |-> <<>> ]
    /\ n_calls = [ s \in ids |-> 0 ]
    /\ n_normalized = [ s \in ids |-> 0 ]
    /\ n_invocations = [ s \in ids |-> 0 ]

SameArgs(call, program, params, repetitions) ==
    /\ call.program = program
    /\ call.params = params
    /\ call.repetitions = repetitions

\* One call samplers[s].run_sweep(program, params, repetitions).
RunSweep(s, program, params, repetitions, backend_ok) ==
    \E call \in { run_sweep(samplers[s], program, params, repetitions, backend_ok) } :
    /\ samplers' = [samplers EXCEPT ![s] = call.self]
    /\ last' = [last EXCEPT ![s] =
                 << [ program |-> program,
                      params |-> params,
                      repetitions |-> repetitions,
                      invocations |-> call.invocations,
                      outcome |-> call.outcome,
                      repeat |-> /\ last[s] # <<>>
                                 /\ SameArgs(last[s][1], program, params, repetitions) ] >> ]
    /\ n_calls' = [n_calls EXCEPT ![s] = @ + 1]
    /\ n_normalized' = [n_normalized EXCEPT ![s] =
                          IF to_resolvers(params).kind = "return" THEN @ + 1 ELSE @]
    /\ n_invocations' = [n_invocations EXCEPT ![s] = @ + Len(call.invocations)]
    /\ UNCHANGED ctor_args

\* One sampler on the QVM as the tests first seed it.
Init ==
    InitWith({1}, { qc \in QuantumComputers : qc.random_seed = 0 },
             {Omitted, Given(ParametricExecutor)},
             {Omitted, Given(UserTransformer)})

Next ==
    \E s \in DOMAIN samplers, program \in Circuits, params \in Sweepables,
       repetitions \in RepetitionArgs, backend_ok \in BOOLEAN :
        /\ n_calls[s] < MaxCalls
        /\ RunSweep(s, program, params, repetitions, backend_ok)

Spec == Init /\ [][Next]_vars

\* Two samplers, one call each, to compare calls of two objects: either
\* seed, either executor, the default transformer.
InitPair ==
    InitWith({1, 2}, QuantumComputers,
             { Given(e) : e \in Executors },
             {Omitted})

NextPair ==
    \E s \in DOMAIN samplers, program \in Circuits,
       params \in SweepablesUpTo(MaxPairSweepLen),
       repetitions \in { Given(n) : n \in 1..MaxReps }, backend_ok \in BOOLEAN :
        /\ n_calls[s] < 1
        /\ RunSweep(s, program, params, repetitions, backend_ok)

SpecPair == InitPair /\ [][NextPair]_vars

----------------------------------------------------------------------------
(* What the claims speak of *)

Called(s) == last[s] # <<>>
Call(s) == last[s][1]

\* The call got past sweep normalization.
PastNormalization(call) == to_resolvers(call.params).kind = "return"
NormalizedResolvers(call) == to_resolvers(call.params).value

\* The points of a sweep, counted and indexed on the caller's input.
SweepSize(params) ==
    IF params.kind = "ParamResolver" THEN 1 ELSE Len(params.points)
SweepPoint(params, i) ==
    IF params.kind = "ParamResolver" THEN params.resolver
    ELSE [t |-> params.points[i]]

\* The repetition count the caller asked for.
RequestedRepetitions(call) ==
    IF call.repetitions = Omitted THEN 1 ELSE call.repetitions[1]

\* What the constructor was asked to configure.
ConfiguredExecutor(s) ==
    IF ctor_args[s].executor = Omitted
    THEN DefaultExecutor ELSE ctor_args[s].executor[1]
ConfiguredTransformer(s) ==
    IF ctor_args[s].transformer = Omitted
    THEN DefaultTransformer ELSE ctor_args[s].transformer[1]

Returned(s) == Called(s) /\ Call(s).outcome.kind = "return"

----------------------------------------------------------------------------
\* C1: every run_sweep call that gets past sweep normalization invokes the
\* configured executor exactly once, with the constructor's backend handle,
\* the caller's circuit, the whole normalized resolver sequence in order, the
\* caller's repetition count (1 when omitted) and the configured transformer.
C1_ExecutorInvokedOnceWithArguments ==
    \A s \in DOMAIN samplers :
        (Called(s) /\ PastNormalization(Call(s))) =>
            /\ Len(Call(s).invocations) = 1
            /\ Call(s).invocations[1].executor = ConfiguredExecutor(s)
            /\ Call(s).invocations[1].kwargs =
                 [ quantum_computer |-> ctor_args[s].quantum_computer,
                   circuit |-> Call(s).program,
                   resolvers |-> NormalizedResolvers(Call(s)),
                   repetitions |-> RequestedRepetitions(Call(s)),
                   transformer |-> ConfiguredTransformer(s) ]

\* A many-point sweep with the repetitions omitted, on a sampler built with
\* its own transformer, has reached the executor.
C1_Witness ==
    \E s \in DOMAIN samplers :
        /\ Called(s)
        /\ SweepSize(Call(s).params) >= 2
        /\ Call(s).repetitions = Omitted
        /\ ctor_args[s].transformer = Given(UserTransformer)
        /\ Len(Call(s).invocations) = 1

\* C2: what run_sweep returns is the sequence its executor invocation
\* returned: same elements, same length, same order.
C2_ReturnsExecutorOutput ==
    \A s \in DOMAIN samplers :
        (Called(s) /\ Call(s).invocations # <<>>
                   /\ Call(s).invocations[1].outcome.kind = "return") =>
            /\ Call(s).outcome.kind = "return"
            /\ Call(s).outcome.value = Call(s).invocations[1].outcome.value

\* The executor returned two results that differ, and the call returned.
C2_Witness ==
    \E s \in DOMAIN samplers :
        /\ Returned(s)
        /\ Len(Call(s).invocations[1].outcome.value) >= 2
        /\ Call(s).invocations[1].outcome.value[1] #
             Call(s).invocations[1].outcome.value[2]

\* C3: for a sweep of N points a returning run_sweep returns exactly N
\* results, the i-th being the one produced for the i-th normalized resolver.
C3_OneResultPerPointInOrder ==
    \A s \in DOMAIN samplers :
        Returned(s) =>
            /\ Len(Call(s).outcome.value) = SweepSize(Call(s).params)
            /\ Len(Call(s).outcome.value) = Len(NormalizedResolvers(Call(s)))
            /\ \A i \in 1..Len(Call(s).outcome.value) :
                 Call(s).outcome.value[i].params = NormalizedResolvers(Call(s))[i]

\* A sweep that names the same point twice has returned.
C3_Witness ==
    \E s \in DOMAIN samplers :
        /\ Returned(s)
        /\ Call(s).params.kind = "Points"
        /\ Len(Call(s).params.points) = 2
        /\ Call(s).params.points[1] = Call(s).params.points[2]
        /\ Len(Call(s).outcome.value) = 2

\* C4: the parameter binding recorded on the i-th returned result equals the
\* i-th point of the input sweep.
C4_ResultParamsMatchSweepPoints ==
    \A s \in DOMAIN samplers :
        Returned(s) =>
            \A i \in 1..Len(Call(s).outcome.value) :
                /\ i <= SweepSize(Call(s).params)
                /\ Call(s).outcome.value[i].params = SweepPoint(Call(s).params, i)

\* A sweep over two different points has returned.
C4_Witness ==
    \E s \in DOMAIN samplers :
        /\ Returned(s)
        /\ Call(s).params.kind = "Points"
        /\ Len(Call(s).params.points) = 2
        /\ Call(s).params.points[1] # Call(s).params.points[2]
        /\ Len(Call(s).outcome.value) = 2

\* C5: a failure propagates unchanged.  A normalization failure ends the call
\* with that error and no executor invocation; an executor failure ends the
\* call with the executor's error, after exactly one invocation, and no
\* result list is returned.
C5_FailuresPropagate ==
    \A s \in DOMAIN samplers :
        Called(s) =>
            /\ ~PastNormalization(Call(s)) =>
                 /\ Call(s).outcome = to_resolvers(Call(s).params)
                 /\ Call(s).outcome.kind = "raise"
                 /\ Call(s).invocations = <<>>
            /\ (Call(s).invocations # <<>>
                  /\ Call(s).invocations[1].outcome.kind = "raise") =>
                 /\ Len(Call(s).invocations) = 1
                 /\ Call(s).outcome.kind = "raise"
                 /\ Call(s).outcome.error = Call(s).invocations[1].outcome.error
                 /\ Call(s).outcome.value = <<>>

\* A call failed in the backend after an earlier call failed in normalization.
C5_Witness ==
    \E s \in DOMAIN samplers :
        /\ n_calls[s] = 2
        /\ n_normalized[s] = 1
        /\ Called(s)
        /\ Call(s).outcome.kind = "raise"
        /\ Call(s).outcome.error = "BackendError"

\* C6: after any sequence of run_sweep calls the sampler's three fields are
\* the ones passed to, or defaulted by, the constructor.
C6_ConfigurationNeverMutated ==
    \A s \in DOMAIN samplers :
        samplers[s] =
            [ _quantum_computer |-> ctor_args[s].quantum_computer,
              executor |-> ConfiguredExecutor(s),
              transformer |-> ConfiguredTransformer(s) ]

\* A sampler built with its own executor and transformer has made a failing
\* and a successful call.
C6_Witness ==
    \E s \in DOMAIN samplers :
        /\ ctor_args[s].executor = Given(ParametricExecutor)
        /\ ctor_args[s].transformer = Given(UserTransformer)
        /\ n_calls[s] = 2
        /\ n_normalized[s] = 1
        /\ Returned(s)

\* C7: the sampler caches nothing and keeps no state between calls.  After k
\* calls that got past normalization the executor has been invoked k times;
\* a call that repeats the arguments of the call before it invokes the
\* executor again, with the same arguments as before.
C7_NoCachingNoCallState ==
    /\ [](\A s \in DOMAIN samplers : n_invocations[s] = n_normalized[s])
    /\ [][ \A s \in DOMAIN samplers :
             (n_calls'[s] = n_calls[s] + 1) =>
                /\ n_invocations'[s] - n_invocations[s] =
                     (IF PastNormalization(last'[s][1]) THEN 1 ELSE 0)
                /\ (Called(s) /\ SameArgs(last[s][1], last'[s][1].program,
                                          last'[s][1].params,
                                          last'[s][1].repetitions)) =>
                     /\ Len(last'[s][1].invocations) = Len(last[s][1].invocations)
                     /\ \A i \in 1..Len(last[s][1].invocations) :
                          /\ last'[s][1].invocations[i].executor =
                               last[s][1].invocations[i].executor
                          /\ last'[s][1].invocations[i].kwargs =
                               last[s][1].invocations[i].kwargs ]_vars

\* A successful call was repeated with identical arguments, and the executor
\* ran both times.
C7_Witness ==
    \E s \in DOMAIN samplers :
        /\ Returned(s)
        /\ Call(s).repeat
        /\ n_calls[s] = 2
        /\ n_invocations[s] = 2

\* C8: the sampler neither validates nor rejects the repetition count.  A
\* call with a count below 1 that got past normalization hands that count
\* unchanged to the executor, in one invocation, and fails exactly when the
\* executor fails, with the executor's error.
C8_InvalidRepetitionsForwarded ==
    \A s \in DOMAIN samplers :
        (Called(s) /\ PastNormalization(Call(s))
                   /\ Call(s).repetitions # Omitted
                   /\ Call(s).repetitions[1] < 1) =>
            /\ Len(Call(s).invocations) = 1
            /\ Call(s).invocations[1].kwargs.repetitions = Call(s).repetitions[1]
            /\ (Call(s).outcome.kind = "raise") <=>
                 (Call(s).invocations[1].outcome.kind = "raise")
            /\ Call(s).outcome.error = Call(s).invocations[1].outcome.error

\* A call with a negative count ended with the executor's error.
C8_Witness ==
    \E s \in DOMAIN samplers :
        /\ Called(s)
        /\ Call(s).repetitions = Given(0 - 1)
        /\ Len(Call(s).invocations) = 1
        /\ Call(s).outcome = Raise("InvalidRepetitions")

\* C9: every returned result holds, for each measurement label of the
\* circuit, data of shape (repetitions, qubits measured under the label),
\* repetitions being the count passed to that call (1 when omitted).
C9_MeasurementShape ==
    \A s \in DOMAIN samplers :
        Returned(s) =>
            \A i \in 1..Len(Call(s).outcome.value) :
                LET measurements == Call(s).outcome.value[i].measurements
                    keys == Call(s).program.measurement_keys
                IN  /\ DOMAIN measurements = DOMAIN keys
                    /\ \A label \in DOMAIN keys :
                         /\ Len(measurements[label]) = RequestedRepetitions(Call(s))
                         /\ \A shot \in 1..Len(measurements[label]) :
                              Len(measurements[label][shot]) = keys[label]

\* Two sweep points, two repetitions, a label over two qubits: shape (2, 2).
C9_Witness ==
    \E s \in DOMAIN samplers :
        /\ Returned(s)
        /\ Len(Call(s).outcome.value) = 2
        /\ Call(s).repetitions = Given(2)
        /\ Call(s).program.measurement_keys.m = 2
        /\ Len(Call(s).outcome.value[2].measurements.m) = 2
        /\ Len(Call(s).outcome.value[2].measurements.m[1]) = 2

C10_ExecutorsDiffer ==
    \E s1 \in DOMAIN samplers, s2 \in DOMAIN samplers :
        /\ ctor_args[s1].quantum_computer = ctor_args[s2].quantum_computer
        /\ ctor_args[s1].executor # ctor_args[s2].executor
        /\ Returned(s1) /\ Returned(s2)
        /\ SameArgs(Call(s1), Call(s2).program, Call(s2).params,
                    Call(s2).repetitions)
        /\ Call(s1).outcome.value # Call(s2).outcome.value

====
